---- MODULE Spec2Model ----
(***************************************************************************)
(* Habit Genius API (src/main.py, src/schemas.py): the document store with *)
(* its five collections, the request handlers, and the three rule-based    *)
(* computations (roadmap/resource generation, streak, advice reply).       *)
(*                                                                         *)
(* Python values are tagged records: None, str (a tuple of text chunks; a  *)
(* text that is searched or lower-cased is held one character per chunk),  *)
(* datetime (calendar day number and time of day).  A store document is a  *)
(* record whose DOMAIN is the set of keys of the dict.                     *)
(*                                                                         *)
(* Every handler is an async def without an await: it runs to completion   *)
(* on the event loop, so one request is one step.  The store (database.py) *)
(* is known by its two operations only: create_document inserts a document *)
(* under a fresh identifier or raises, get_documents returns the matching  *)
(* documents.  A request's step chooses which of its create_document calls *)
(* raises, if any; the handlers catch nothing.                             *)
(***************************************************************************)
EXTENDS Integers, Sequences, FiniteSets, TLC

VARIABLES habit, roadmapitem, resource, progress, message, today, served, last

vars == <<habit, roadmapitem, resource, progress, message, today, served, last>>

store == <<habit, roadmapitem, resource, progress, message>>

\* ------------------------------------------------------------ bounds
\* requests served in one behaviour of Spec
MaxRequests == 2
\* text inputs of GenSpec and AskSpec are concatenations of at most MaxFrags fragments
MaxFrags == 2
\* calendar days are 0..MaxDay
MaxDay == 3
\* progress documents in the store at the start of StreakSpec
MaxItems == 3

\* ------------------------------------------------------------ Python values
None == [t |-> "None"]

Str(chunks) == [t |-> "str", s |-> chunks]

\* a literal held as one chunk
S(lit) == Str(<<lit>>)

Datetime(d, tod) == [t |-> "datetime", day |-> d, tod |-> tod]

RECURSIVE Flat(_)
\* the characters of a text, chunk boundaries forgotten
Flat(chunks) == IF Len(chunks) = 0 THEN "" ELSE Head(chunks) \o Flat(Tail(chunks))

\* truthiness of an Optional[str]: None and "" are falsy
Truthy(v) == v.t = "str" /\ Flat(v.s) # ""

UpperCase == <<"A","B","C","D","E","F","G","H","I","J","K","L","M",
               "N","O","P","Q","R","S","T","U","V","W","X","Y","Z">>

LowerCase == <<"a","b","c","d","e","f","g","h","i","j","k","l","m",
               "n","o","p","q","r","s","t","u","v","w","x","y","z">>

LowerChar(c) ==
    IF \E i \in 1..26 : UpperCase[i] = c
    THEN LowerCase[CHOOSE i \in 1..26 : UpperCase[i] = c]
    ELSE c

\* variant: the name is searched as typed
lower_as_typed(cs) == cs

\* str.lower() of a text held one character per chunk
lower(cs) == [i \in 1..Len(cs) |-> LowerChar(cs[i])]

\* Python's  kw in text  : kw occurs as a contiguous substring
In(kw, cs) ==
    \E i \in 1..(Len(cs) - Len(kw) + 1) : SubSeq(cs, i, i + Len(kw) - 1) = kw

RECURSIVE join(_, _)
\* sep.join(parts) for a sequence of texts
join(sep, parts) ==
    IF Len(parts) = 0 THEN <<>>
    ELSE IF Len(parts) = 1 THEN parts[1]
    ELSE parts[1] \o sep \o join(sep, Tail(parts))

\* dict.get(key, default)
get(d, key, default) == IF key \in DOMAIN d THEN d[key] ELSE default

\* ------------------------------------------------------------ keywords
KwDesign  == <<"d","e","s","i","g","n">>
KwWorkOut == <<"w","o","r","k"," ","o","u","t">>
KwWorkout == <<"w","o","r","k","o","u","t">>
KwFitness == <<"f","i","t","n","e","s","s">>
KwRead    == <<"r","e","a","d">>
KwGym     == <<"g","y","m">>
KwBook    == <<"b","o","o","k">>

\* ------------------------------------------------------------ generation
RoadmapItem(habit_id, title, desc, order) ==
    [habit_id |-> habit_id, title |-> S(title), description |-> S(desc),
     order |-> order, due_date |-> None, completed |-> FALSE]

milestones ==
    << <<"Define success & baseline", "Write your why, measure current level", 0>>,
       <<"Learn the fundamentals", "Pick a starter guide and finish it", 1>>,
       <<"Build a repeatable routine", "Set time, trigger, environment", 2>>,
       <<"Deepen practice", "Do 14-day focused streak", 3>>,
       <<"Showcase milestone", "Publish a small project or reflection", 4>> >>

\* variant: orders taken from the position in the template, counted from 1
roadmap_items_from_one(habit_id) ==
    [i \in 1..Len(milestones) |->
        RoadmapItem(habit_id, milestones[i][1], milestones[i][2], i)]

roadmap_items(habit_id) ==
    [i \in 1..Len(milestones) |->
        RoadmapItem(habit_id, milestones[i][1], milestones[i][2], milestones[i][3])]

\* add_res: one Resource of the habit; type defaults to "article"
add_res(habit_id, title, url, type, provider) ==
    [habit_id |-> habit_id, title |-> S(title), url |-> S(url), type |-> S(type),
     provider |-> provider, notes |-> None]

DesignResources(habit_id) ==
    << add_res(habit_id, "UI Design Crash Course", "https://youtu.be/_Hp_dI0DzY4",
               "video", S("Jesse Showalter")),
       add_res(habit_id, "Refactoring UI", "https://www.refactoringui.com/",
               "course", S("Adam Wathan")),
       add_res(habit_id, "Laws of UX", "https://lawsofux.com/", "article", None),
       add_res(habit_id, "Awesome Design Tools",
               "https://github.com/goabstract/Awesome-Design-Tools", "article", None) >>

FitnessResources(habit_id) ==
    << add_res(habit_id, "Beginner Bodyweight Workout",
               "https://www.nerdfitness.com/blog/beginner-bodyweight-workout/",
               "article", None),
       add_res(habit_id, "Athlean-X", "https://www.youtube.com/@athleanx", "video", None),
       add_res(habit_id, "r/Fitness Wiki", "https://thefitness.wiki/", "article", None) >>

ReadingResources(habit_id) ==
    << add_res(habit_id, "How to Read More Books", "https://jamesclear.com/reading",
               "article", None),
       add_res(habit_id, "Readwise", "https://readwise.io/", "tool", None),
       add_res(habit_id, "Blinkist", "https://www.blinkist.com/", "tool", None) >>

GeneralResources(habit_id) ==
    << add_res(habit_id, "Atomic Habits Summary", "https://jamesclear.com/atomic-habits",
               "article", S("James Clear")),
       add_res(habit_id, "Building a Habit Streak",
               "https://www.youtube.com/watch?v=U_nzqnXWvSo", "video", S("Ali Abdaal")) >>

NameHasDesign(habit_lower) == In(KwDesign, habit_lower)

NameHasFitness(habit_lower) ==
    In(KwWorkOut, habit_lower) \/ In(KwWorkout, habit_lower) \/ In(KwFitness, habit_lower)

NameHasReading(habit_lower) == In(KwRead, habit_lower)

\* variant: the category checks chained with elif
resources_elif(habit_id, habit_lower) ==
    (IF NameHasDesign(habit_lower) THEN DesignResources(habit_id)
     ELSE IF NameHasFitness(habit_lower) THEN FitnessResources(habit_id)
     ELSE IF NameHasReading(habit_lower) THEN ReadingResources(habit_id)
     ELSE <<>>)
    \o GeneralResources(habit_id)

\* variant: the general resources only when no category matched
resources_general_as_fallback(habit_id, habit_lower) ==
    LET matched ==
            (IF NameHasDesign(habit_lower) THEN DesignResources(habit_id) ELSE <<>>)
            \o (IF NameHasFitness(habit_lower) THEN FitnessResources(habit_id) ELSE <<>>)
            \o (IF NameHasReading(habit_lower) THEN ReadingResources(habit_id) ELSE <<>>)
    IN  IF Len(matched) = 0 THEN GeneralResources(habit_id) ELSE matched

resources(habit_id, habit_lower) ==
    (IF NameHasDesign(habit_lower) THEN DesignResources(habit_id) ELSE <<>>)
    \o (IF NameHasFitness(habit_lower) THEN FitnessResources(habit_id) ELSE <<>>)
    \o (IF NameHasReading(habit_lower) THEN ReadingResources(habit_id) ELSE <<>>)
    \o GeneralResources(habit_id)

\* habit is a str; description is accepted and not used
generate_roadmap_and_resources(habit_id, habit_name, description) ==
    [roadmap |-> roadmap_items(habit_id),
     resources |-> resources(habit_id, lower(habit_name.s))]

\* ------------------------------------------------------------ document store
DocCount == Len(habit) + Len(roadmapitem) + Len(resource) + Len(progress) + Len(message)

\* the identifier the store assigns to the n-th document it holds, as a str
ObjectId(n) == Str(<<"oid", ToString(n)>>)

Call(coll, doc) == [coll |-> coll, doc |-> doc]

\* variant: the handler goes on after a call has raised
AttemptedAll(calls, failAt) == calls

\* The create_document calls of one request, in program order, when call number
\* failAt raises (0: none does).  An exception is not caught by any handler, so
\* the calls after the failing one are not made.
Attempted(calls, failAt) ==
    IF failAt = 0 THEN calls ELSE SubSeq(calls, 1, failAt)

Succeeded(calls, failAt) ==
    IF failAt = 0 THEN calls ELSE SubSeq(calls, 1, failAt - 1)

\* which call of a request may raise: none (0) or any one of them
FailPoints(calls) == 0..Len(calls)

Trace(calls, failAt) ==
    [k \in 1..Len(Attempted(calls, failAt)) |->
        [coll |-> calls[k].coll, doc |-> calls[k].doc, ok |-> (k # failAt)]]

\* create_document: the k-th successful call of a request inserts its data under
\* a fresh identifier
Stamped(calls, failAt) ==
    [k \in 1..Len(Succeeded(calls, failAt)) |->
        [coll |-> calls[k].coll,
         doc |-> [x \in DOMAIN calls[k].doc \cup {"_id"} |->
                     IF x = "_id" THEN ObjectId(DocCount + k) ELSE calls[k].doc[x]]]]

RECURSIVE DocsOf(_, _)
DocsOf(coll, stamped) ==
    IF Len(stamped) = 0 THEN <<>>
    ELSE (IF Head(stamped).coll = coll THEN <<Head(stamped).doc>> ELSE <<>>)
         \o DocsOf(coll, Tail(stamped))

Persist(calls, failAt) ==
    LET st == Stamped(calls, failAt) IN
    /\ habit' = habit \o DocsOf("habit", st)
    /\ roadmapitem' = roadmapitem \o DocsOf("roadmapitem", st)
    /\ resource' = resource \o DocsOf("resource", st)
    /\ progress' = progress \o DocsOf("progress", st)
    /\ message' = message \o DocsOf("message", st)

RECURSIVE Matching(_, _)
\* get_documents(collection, {"habit_id": habit_id}): the matching documents, in store order
Matching(docs, habit_id) ==
    IF Len(docs) = 0 THEN <<>>
    ELSE (IF Head(docs).habit_id = habit_id THEN <<Head(docs)>> ELSE <<>>)
         \o Matching(Tail(docs), habit_id)

\* d["id"] = str(d.pop("_id"))
RenameId(d) ==
    IF "_id" \in DOMAIN d
    THEN [x \in (DOMAIN d \ {"_id"}) \cup {"id"} |-> IF x = "id" THEN d["_id"] ELSE d[x]]
    ELSE d

RenameIds(docs) == [i \in 1..Len(docs) |-> RenameId(docs[i])]

Ok(body) == [status |-> "ok", body |-> body]

Raised(exc) == [status |-> "error", exc |-> exc]

Outcome(calls, failAt, body) ==
    IF failAt = 0 THEN Ok(body) ELSE Raised("PersistenceError")

\* ------------------------------------------------------------ POST /api/habits
Habit(payload) ==
    [name |-> payload.name, description |-> payload.description, start_date |-> None,
     target_days_per_week |-> payload.target_days_per_week, progress |-> 0]

\* Field(5, ge=1, le=7)
HabitValid(payload) ==
    payload.target_days_per_week >= 1 /\ payload.target_days_per_week <= 7

create_habit_calls(payload) ==
    LET habit_id == ObjectId(DocCount + 1)
        gen == generate_roadmap_and_resources(habit_id, payload.name, payload.description)
    IN  <<Call("habit", Habit(payload))>>
        \o [i \in 1..Len(gen.roadmap) |-> Call("roadmapitem", gen.roadmap[i])]
        \o [i \in 1..Len(gen.resources) |-> Call("resource", gen.resources[i])]

create_habit(payload, failAt) ==
    IF ~HabitValid(payload)
    THEN /\ failAt = 0
         /\ last' = [op |-> "create_habit", args |-> payload, trace |-> <<>>,
                     result |-> Raised("ValidationError")]
         /\ UNCHANGED store
    ELSE LET calls == create_habit_calls(payload) IN
         /\ failAt \in 0..Len(calls)
         /\ Persist(calls, failAt)
         /\ last' = [op |-> "create_habit", args |-> payload,
                     trace |-> Trace(calls, failAt),
                     result |-> Outcome(calls, failAt,
                                        [habit_id |-> ObjectId(DocCount + 1),
                                         message |-> S("Habit created with roadmap and resources")])]

\* ------------------------------------------------------------ GET handlers
list_habits ==
    /\ last' = [op |-> "list_habits", args |-> None, trace |-> <<>>,
                result |-> Ok(RenameIds(habit))]
    /\ UNCHANGED store

RECURSIVE InsertByOrder(_, _)
InsertByOrder(d, sorted) ==
    IF Len(sorted) = 0 THEN <<d>>
    ELSE IF get(sorted[Len(sorted)], "order", 0) <= get(d, "order", 0)
         THEN Append(sorted, d)
         ELSE Append(InsertByOrder(d, SubSeq(sorted, 1, Len(sorted) - 1)),
                     sorted[Len(sorted)])

RECURSIVE SortByOrder(_)
\* items.sort(key=lambda x: x.get("order", 0)): a stable sort
SortByOrder(items) ==
    IF Len(items) = 0 THEN <<>>
    ELSE InsertByOrder(items[Len(items)], SortByOrder(SubSeq(items, 1, Len(items) - 1)))

get_habit_roadmap(habit_id) ==
    /\ last' = [op |-> "get_habit_roadmap", args |-> habit_id, trace |-> <<>>,
                result |-> Ok(SortByOrder(RenameIds(Matching(roadmapitem, habit_id))))]
    /\ UNCHANGED store

get_habit_resources(habit_id) ==
    /\ last' = [op |-> "get_habit_resources", args |-> habit_id, trace |-> <<>>,
                result |-> Ok(RenameIds(Matching(resource, habit_id)))]
    /\ UNCHANGED store

\* ------------------------------------------------------------ progress
\* Progress(...): taken_at defaults to datetime.utcnow()
Progress(p, tod) ==
    [habit_id |-> p.habit_id, note |-> p.note, image_base64 |-> p.image_base64,
     taken_at |-> Datetime(today, tod)]

\* variant: the document goes to another collection
add_progress_to_message(p, tod, failAt) ==
    LET calls == <<Call("message", Progress(p, tod))>> IN
    /\ failAt \in 0..Len(calls)
    /\ Persist(calls, failAt)
    /\ last' = [op |-> "add_progress", args |-> p, trace |-> Trace(calls, failAt),
                result |-> Outcome(calls, failAt, [progress_id |-> ObjectId(DocCount + 1)])]

add_progress(p, tod, failAt) ==
    LET calls == <<Call("progress", Progress(p, tod))>> IN
    /\ failAt \in 0..Len(calls)
    /\ Persist(calls, failAt)
    /\ last' = [op |-> "add_progress", args |-> p, trace |-> Trace(calls, failAt),
                result |-> Outcome(calls, failAt, [progress_id |-> ObjectId(DocCount + 1)])]

\* item.get("taken_at", item.get("created_at"))
Effective(item) == get(item, "taken_at", get(item, "created_at", None))

\* .date() exists on a datetime only
HasDate(v) == v.t = "datetime"

\* the set comprehension raises AttributeError when some value has no .date()
DatesComputable(items) == \A i \in 1..Len(items) : HasDate(Effective(items[i]))

dates(items) == {Effective(items[i]).day : i \in 1..Len(items)}

\* variant: every recorded day up to check is counted, gaps included
streak_from_all(check, ds) == Cardinality({d \in ds : d <= check})

RECURSIVE streak_from(_, _)
\* the while loop: count check, check - 1, ... as long as they are in dates
streak_from(check, ds) ==
    IF check \in ds THEN 1 + streak_from(check - 1, ds) ELSE 0

list_progress(habit_id) ==
    LET items == RenameIds(Matching(progress, habit_id)) IN
    /\ last' = [op |-> "list_progress", args |-> habit_id, trace |-> <<>>,
                result |-> IF DatesComputable(items)
                           THEN Ok([items |-> items, streak |-> streak_from(today, dates(items))])
                           ELSE Raised("AttributeError")]
    /\ UNCHANGED store

\* ------------------------------------------------------------ POST /api/ask
DesignTips ==
    << <<"Focus on spacing, alignment, and contrast. Try a 4/8pt grid.">>,
       <<"Collect 3 references and recreate one UI daily for 7 days.">> >>

WorkoutTips ==
    << <<"Start with 3 full-body sessions/week. Track sets x reps.">>,
       <<"Progressive overload: add small increments weekly.">> >>

\* the source writes 20-30 with an en dash
ReadingTips ==
    << <<"Set a 20-30 min window daily. Use a timer and go distraction-free.">>,
       <<"Write a 3-sentence summary after each session.">> >>

FallbackTips == << <<"Clarify your goal and current level. What's one tiny step today?">> >>

ImageSentence ==
    <<"I looked at your image. Consider composition, clarity, and consistency with your stated goal. ">>

LeadIn == <<"Here are tailored suggestions: ">>

\* payload.question or ""
OrEmpty(v) == IF Truthy(v) THEN v ELSE Str(<<>>)

AskDesign(q) == In(KwDesign, q)

AskWorkout(q) == In(KwWorkOut, q) \/ In(KwWorkout, q) \/ In(KwGym, q)

AskReading(q) == In(KwRead, q) \/ In(KwBook, q)

\* variant: the keyword groups chained with elif
tips_elif(q) ==
    IF AskDesign(q) THEN DesignTips
    ELSE IF AskWorkout(q) THEN WorkoutTips
    ELSE IF AskReading(q) THEN ReadingTips
    ELSE FallbackTips

tips(q) ==
    LET matched == (IF AskDesign(q) THEN DesignTips ELSE <<>>)
                   \o (IF AskWorkout(q) THEN WorkoutTips ELSE <<>>)
                   \o (IF AskReading(q) THEN ReadingTips ELSE <<>>)
    IN  IF Len(matched) = 0 THEN FallbackTips ELSE matched

reply(payload) ==
    Str((IF Truthy(payload.image_base64) THEN ImageSentence ELSE <<>>)
        \o LeadIn \o join(<<" ">>, tips(lower(OrEmpty(payload.question).s))))

Message(habit_id, role, content, image_base64, tod) ==
    [habit_id |-> habit_id, role |-> role, content |-> content,
     image_base64 |-> image_base64, created_at |-> Datetime(today, tod)]

\* variant: the reply is logged before the question
ask_ai_calls_reply_first(payload, tod) ==
    << Call("message", Message(payload.habit_id, "assistant", reply(payload), None, tod)),
       Call("message", Message(payload.habit_id, "user", OrEmpty(payload.question),
                               payload.image_base64, tod)) >>

ask_ai_calls(payload, tod) ==
    << Call("message", Message(payload.habit_id, "user", OrEmpty(payload.question),
                               payload.image_base64, tod)),
       Call("message", Message(payload.habit_id, "assistant", reply(payload), None, tod)) >>

ask_ai(payload, tod, failAt) ==
    LET calls == ask_ai_calls(payload, tod) IN
    /\ failAt \in 0..Len(calls)
    /\ Persist(calls, failAt)
    /\ last' = [op |-> "ask_ai", args |-> payload, trace |-> Trace(calls, failAt),
                result |-> Outcome(calls, failAt, [answer |-> reply(payload)])]

\* ------------------------------------------------------------ inputs
\* time of day of a clock reading: morning, evening
Tods == {0, 1}

Payload64 == S("aGVsbG8=")

\* requests of Spec
SpecNames == {Str(<<"U","I"," ","D","e","s","i","g","n">>), Str(<<"R","u","n">>)}

SpecTargets == {5, 8}

SpecQuestions == {None, Str(<<"G","y","m","?">>)}

SpecImages == {None, Payload64}

Ghost == S("ghost")

KnownIds == {habit[i]["_id"] : i \in 1..Len(habit)} \cup {Ghost}

\* fragments the habit names of GenSpec are built from
NameFrags ==
    { <<"d","e","s","i","g","n">>, <<"D","E","S","I","G","N">>, <<"d","e","s">>,
      <<"i","g","n">>, <<"w","o","r","k">>, <<"W","o","r","k">>, <<"o","u","t">>,
      <<" ">>, <<"f","i","t","n","e","s","s">>, <<"R","e","a","d">>,
      <<"r","e","a">>, <<"d">>, <<"g","y","m">>, <<"B","o","o","k">>, <<"x">> }

\* fragments the questions of AskSpec are built from
AskFrags ==
    { <<"D","e","s","i","g","n">>, <<"w","o","r","k">>, <<"W","o","r","k"," ">>,
      <<"o","u","t">>, <<"G","Y","M">>, <<"r","e","a","d">>, <<"B","o","o","k">>,
      <<"?">> }

RECURSIVE Texts(_, _)
\* the concatenations of at most n fragments
Texts(frags, n) ==
    IF n = 0 THEN {<<>>}
    ELSE Texts(frags, n - 1) \cup {f \o x : f \in frags, x \in Texts(frags, n - 1)}

AskImages == {None, Str(<<>>), Payload64}

\* progress documents the store may hold at the start of StreakSpec: written by
\* add_progress (taken_at), by a writer that stamps created_at only, or without
\* a usable timestamp (taken_at null, a string, or neither key)
Days == 0..MaxDay

ProgressDoc(n, habit_id, stamp) ==
    [x \in {"_id", "habit_id", "note", "image_base64"} \cup DOMAIN stamp |->
        CASE x = "_id" -> ObjectId(n)
          [] x = "habit_id" -> habit_id
          [] x \in {"note", "image_base64"} -> None
          [] OTHER -> stamp[x]]

Stamps ==
    {[taken_at |-> Datetime(d, tod)] : d \in Days, tod \in Tods}
    \cup {[created_at |-> Datetime(d, 0)] : d \in Days}
    \cup {[taken_at |-> None], [taken_at |-> S("yesterday")], [z \in {} |-> None]}

Shapes ==
    {[habit_id |-> ObjectId(0), stamp |-> st] : st \in Stamps}
    \cup {[habit_id |-> Ghost, stamp |-> [taken_at |-> Datetime(d, 0)]] : d \in Days}

RECURSIVE SeqOf(_)
\* the documents of a set of shapes, numbered, in some order
SeqOf(shapes) ==
    IF shapes = {} THEN <<>>
    ELSE LET sh == CHOOSE x \in shapes : TRUE
             rest == SeqOf(shapes \ {sh})
         IN  Append(rest, ProgressDoc(Len(rest) + 1, sh.habit_id, sh.stamp))

\* ------------------------------------------------------------ specifications
Idle == [op |-> "none", args |-> None, trace |-> <<>>, result |-> Ok(None)]

Init ==
    /\ habit = <<>>
    /\ roadmapitem = <<>>
    /\ resource = <<>>
    /\ progress = <<>>
    /\ message = <<>>
    /\ today = MaxDay
    /\ served = 0
    /\ last = Idle

Serve(n) ==
    /\ served < n
    /\ served' = served + 1
    /\ UNCHANGED today

CreateHabit ==
    \E name \in SpecNames, target \in SpecTargets :
        LET payload == [name |-> name, description |-> None, target_days_per_week |-> target]
        IN  \E failAt \in FailPoints(create_habit_calls(payload)) :
                Serve(MaxRequests) /\ create_habit(payload, failAt)

ListHabits == Serve(MaxRequests) /\ list_habits

GetHabitRoadmap == \E h \in KnownIds : Serve(MaxRequests) /\ get_habit_roadmap(h)

GetHabitResources == \E h \in KnownIds : Serve(MaxRequests) /\ get_habit_resources(h)

AddProgress ==
    \E h \in KnownIds, tod \in Tods, failAt \in {0, 1} :
        /\ Serve(MaxRequests)
        /\ add_progress([habit_id |-> h, note |-> None, image_base64 |-> None], tod, failAt)

ListProgress == \E h \in KnownIds : Serve(MaxRequests) /\ list_progress(h)

AskAi ==
    \E h \in (KnownIds \ {Ghost}) \cup {None}, q \in SpecQuestions, img \in SpecImages, failAt \in {0, 1, 2} :
        /\ Serve(MaxRequests)
        /\ ask_ai([habit_id |-> h, question |-> q, image_base64 |-> img], 0, failAt)

Next ==
    \/ CreateHabit
    \/ ListHabits
    \/ GetHabitRoadmap
    \/ GetHabitResources
    \/ AddProgress
    \/ ListProgress
    \/ AskAi

Spec == Init /\ [][Next]_vars

\* generate_roadmap_and_resources applied to one habit name
Generate ==
    \E cs \in Texts(NameFrags, MaxFrags) :
        /\ Serve(1)
        /\ last' = [op |-> "generate_roadmap_and_resources", args |-> Str(cs), trace |-> <<>>,
                    result |-> Ok(generate_roadmap_and_resources(ObjectId(1), Str(cs), None))]
        /\ UNCHANGED store

GenNext == Generate

GenSpec == Init /\ [][GenNext]_vars

\* ask_ai applied to one question
AskOne ==
    \E cs \in Texts(AskFrags, MaxFrags), absent \in BOOLEAN, img \in AskImages, failAt \in {0, 1, 2} :
        /\ Serve(1)
        /\ absent => cs = <<>>
        /\ ask_ai([habit_id |-> None, question |-> IF absent THEN None ELSE Str(cs),
                   image_base64 |-> img], 0, failAt)

AskNext == AskOne

AskSpec == Init /\ [][AskNext]_vars

\* list_progress applied to one stored set of progress documents
StreakInit ==
    /\ habit = <<>>
    /\ roadmapitem = <<>>
    /\ resource = <<>>
    /\ \E shapes \in SUBSET Shapes :
          /\ Cardinality(shapes) <= MaxItems
          /\ progress = SeqOf(shapes)
    /\ message = <<>>
    /\ today \in Days
    /\ served = 0
    /\ last = Idle

StreakOne == \E h \in {ObjectId(0), Ghost} : Serve(1) /\ list_progress(h)

StreakNext == StreakOne

StreakSpec == StreakInit /\ [][StreakNext]_vars

\* ------------------------------------------------------------ properties
\* kw occurs in cs when letter case is ignored
ContainsCI(kw, cs) ==
    \E i \in 0..(Len(cs) - Len(kw)) : \A j \in 1..Len(kw) : LowerChar(cs[i + j]) = kw[j]

LastN(seq, n) == SubSeq(seq, Len(seq) - n + 1, Len(seq))

Strip(d) == [x \in DOMAIN d \ {"_id"} |-> d[x]]

Generated == last.op = "generate_roadmap_and_resources"

GenName == last.args.s

GenRes == last.result.body.resources

GenMap == last.result.body.roadmap

IsDesign == ContainsCI(KwDesign, GenName)

IsFitness ==
    ContainsCI(KwWorkOut, GenName) \/ ContainsCI(KwWorkout, GenName)
    \/ ContainsCI(KwFitness, GenName)

IsReading == ContainsCI(KwRead, GenName)

FiveInOrder == Len(GenMap) = 5 /\ \A i \in 1..5 : GenMap[i].order = i - 1

Titles(rs) == [i \in 1..Len(rs) |-> Flat(rs[i].title.s)]

DesignTitles ==
    <<"UI Design Crash Course", "Refactoring UI", "Laws of UX", "Awesome Design Tools">>

FitnessTitles == <<"Beginner Bodyweight Workout", "Athlean-X", "r/Fitness Wiki">>

ReadingTitles == <<"How to Read More Books", "Readwise", "Blinkist">>

GeneralTitles == <<"Atomic Habits Summary", "Building a Habit Streak">>

\* the days on which a habit has a progress record, and the run of them ending at t
RecordDays(h) ==
    {d \in Days : \E i \in 1..Len(progress) :
        /\ progress[i].habit_id = h
        /\ Effective(progress[i]) \in {Datetime(d, tod) : tod \in Tods}}

RunLength(t, ds) ==
    CHOOSE k \in 0..(t + 1) :
        /\ \A j \in 0..(k - 1) : (t - j) \in ds
        /\ (t - k) \notin ds

\* C1: the streak list_progress returns is the number of consecutive calendar
\* days, counted backward from today inclusive, that each have at least one
\* progress record of the habit; 0 when today has none; records on the same
\* date count as one day.
C1_Streak ==
    (last.op = "list_progress" /\ last.result.status = "ok")
        => last.result.body.streak = RunLength(today, RecordDays(last.args))

C1_Witness ==
    /\ last.op = "list_progress"
    /\ last.result.status = "ok"
    /\ Len(last.result.body.items) = 3
    /\ last.result.body.streak = 2

\* C6 (as claimed): a progress record without a usable effective timestamp is
\* left out of the date set and list_progress still returns the streak of the
\* remaining records.
C6_Excluded ==
    last.op = "list_progress"
        => /\ last.result.status = "ok"
           /\ last.result.body.streak = RunLength(today, RecordDays(last.args))

\* C2 (as claimed): a name containing "design" in any letter case gets the 4
\* design resources and the 2 general ones, 6 resources in total, and 5 roadmap
\* items with orders 0..4 in order.
C2_SixInTotal ==
    (Generated /\ IsDesign)
        => /\ Len(GenRes) = 6
           /\ SubSeq(Titles(GenRes), 1, 4) = DesignTitles
           /\ LastN(Titles(GenRes), 2) = GeneralTitles
           /\ FiveInOrder

\* C2 (amended): a name containing "design" in any letter case gets the 4 design
\* resources first and the 2 general ones last, and 5 roadmap items with orders
\* 0..4 in order; the total is 6 when no fitness or reading keyword occurs in the
\* name, and 3 more for each of these two categories that also matches.
C2_DesignIncluded ==
    (Generated /\ IsDesign)
        => /\ Len(GenRes) = 6 + (IF IsFitness THEN 3 ELSE 0) + (IF IsReading THEN 3 ELSE 0)
           /\ SubSeq(Titles(GenRes), 1, 4) = DesignTitles
           /\ LastN(Titles(GenRes), 2) = GeneralTitles
           /\ FiveInOrder

C2_Witness ==
    /\ Generated
    /\ GenName = <<"D","E","S","I","G","N","x">>
    /\ Len(GenRes) = 6

\* C3: a name with none of the keywords gets exactly the 2 general resources and
\* 5 roadmap items; every name gets 5 roadmap items and at least 2 resources,
\* the last two being the general ones.
C3_General ==
    Generated
        => /\ Len(GenMap) = 5
           /\ Len(GenRes) >= 2
           /\ LastN(Titles(GenRes), 2) = GeneralTitles
           /\ (~IsDesign /\ ~IsFitness /\ ~IsReading) => Titles(GenRes) = GeneralTitles

C3_Witness ==
    /\ Generated
    /\ GenName = <<"d","e","s","x">>
    /\ Titles(GenRes) = GeneralTitles

\* C8: the resources are the design list if "design" occurs in the lower-cased
\* name, then the fitness list if "work out", "workout" or "fitness" does, then
\* the reading list if "read" does, then the 2 general ones; the checks are
\* independent, nothing is dropped.
C8_Concatenation ==
    Generated
        => /\ Titles(GenRes) =
                (IF IsDesign THEN DesignTitles ELSE <<>>)
                \o (IF IsFitness THEN FitnessTitles ELSE <<>>)
                \o (IF IsReading THEN ReadingTitles ELSE <<>>)
                \o GeneralTitles
           /\ Len(GenRes) = 2 + (IF IsDesign THEN 4 ELSE 0) + (IF IsFitness THEN 3 ELSE 0)
                              + (IF IsReading THEN 3 ELSE 0)
           /\ \A i \in 1..Len(GenRes) : GenRes[i].habit_id = ObjectId(1)

C8_Witness ==
    /\ Generated
    /\ IsFitness
    /\ IsReading
    /\ Len(GenRes) = 8

\* the reply a question and an image flag call for
AskedText == IF last.args.question = None THEN <<>> ELSE last.args.question.s

AskedDesign == ContainsCI(KwDesign, AskedText)

AskedWorkout ==
    ContainsCI(KwWorkOut, AskedText) \/ ContainsCI(KwWorkout, AskedText)
    \/ ContainsCI(KwGym, AskedText)

AskedReading == ContainsCI(KwRead, AskedText) \/ ContainsCI(KwBook, AskedText)

AskedImage == last.args.image_base64 \notin {None, Str(<<>>)}

ExpectedTips ==
    IF ~AskedDesign /\ ~AskedWorkout /\ ~AskedReading
    THEN <<Flat(FallbackTips[1])>>
    ELSE (IF AskedDesign THEN <<Flat(DesignTips[1]), Flat(DesignTips[2])>> ELSE <<>>)
         \o (IF AskedWorkout THEN <<Flat(WorkoutTips[1]), Flat(WorkoutTips[2])>> ELSE <<>>)
         \o (IF AskedReading THEN <<Flat(ReadingTips[1]), Flat(ReadingTips[2])>> ELSE <<>>)

RECURSIVE Spaced(_)
Spaced(strings) ==
    IF Len(strings) = 1 THEN strings[1]
    ELSE strings[1] \o " " \o Spaced(Tail(strings))

ExpectedReply ==
    (IF AskedImage THEN Flat(ImageSentence) ELSE "") \o Flat(LeadIn) \o Spaced(ExpectedTips)

\* C7: the reply of ask_ai is the image sentence iff an image was supplied
\* (a non-empty image_base64), then the lead-in, then the tips joined by single
\* spaces: the 2 tips of each matched group in the order design, workout,
\* reading, and the fallback tip iff no group matched.
C7_Reply ==
    last.op = "ask_ai"
        => /\ last.result.status = "ok" => Flat(last.result.body.answer.s) = ExpectedReply
           /\ Len(last.trace) = 2 => Flat(last.trace[2].doc.content.s) = ExpectedReply

C7_Witness ==
    /\ last.op = "ask_ai"
    /\ last.result.status = "ok"
    /\ AskedImage
    /\ AskedWorkout
    /\ AskedReading
    /\ ~AskedDesign
    /\ Len(ExpectedTips) = 4

\* the two message creations of an advice request
UserCreation(e) ==
    /\ e.coll = "message"
    /\ e.doc.role = "user"
    /\ e.doc.habit_id = last.args.habit_id
    /\ e.doc.image_base64 = last.args.image_base64
    /\ e.doc.content = (IF last.args.question = None THEN Str(<<>>) ELSE last.args.question)

AssistantCreation(e) ==
    /\ e.coll = "message"
    /\ e.doc.role = "assistant"
    /\ e.doc.habit_id = last.args.habit_id
    /\ Flat(e.doc.content.s) = ExpectedReply

\* C4 (as claimed): every call of ask_ai triggers exactly two message
\* creations, first role=user (content the question or "", with the image),
\* then role=assistant (content the reply), both with the request's habit_id.
C4_AlwaysTwo ==
    last.op = "ask_ai"
        => /\ Len(last.trace) = 2
           /\ UserCreation(last.trace[1])
           /\ AssistantCreation(last.trace[2])

\* C4 (amended): every call of ask_ai first attempts the creation of the
\* role=user message; when that creation succeeds it attempts exactly one more,
\* the role=assistant message with the reply, and when it fails no other
\* creation is attempted.  A call that returns has created exactly these two
\* messages, in this order, at the end of the message collection.
C4_TwoUnlessFailed ==
    last.op = "ask_ai"
        => /\ Len(last.trace) >= 1
           /\ UserCreation(last.trace[1])
           /\ last.trace[1].ok
                => Len(last.trace) = 2 /\ AssistantCreation(last.trace[2])
           /\ ~last.trace[1].ok => Len(last.trace) = 1
           /\ last.result.status = "ok"
                => /\ Len(message) >= 2
                   /\ Strip(message[Len(message) - 1]) = last.trace[1].doc
                   /\ Strip(message[Len(message)]) = last.trace[2].doc
                   /\ last.trace[2].doc.content = last.result.body.answer

C4_Witness ==
    /\ last.op = "ask_ai"
    /\ last.result.status = "ok"
    /\ Len(habit) = 1
    /\ last.args.habit_id = habit[1]["_id"]
    /\ last.args.image_base64 = Payload64
    /\ Len(message) = 2

\* the roadmap items of a habit
ItemsOf(h) == {i \in 1..Len(roadmapitem) : roadmapitem[i].habit_id = h}

OrdersOf(h) == {roadmapitem[i].order : i \in ItemsOf(h)}

\* C5 (as claimed): in every reachable state, the order values of the
\* roadmapitem documents of each existing habit are exactly {0,1,2,3,4}, each
\* occurring once.
C5_ExactlyFive ==
    \A n \in 1..Len(habit) :
        /\ Cardinality(ItemsOf(habit[n]["_id"])) = 5
        /\ OrdersOf(habit[n]["_id"]) = 0..4

\* C5 (amended): in every reachable state, the order values of the roadmapitem
\* documents of each existing habit are distinct and are {0,..,k-1} for some
\* k <= 5; they are exactly {0,1,2,3,4} for every habit whose create_habit
\* request returned, and for every habit that has a resource document.
C5_PrefixOfFive ==
    /\ \A n \in 1..Len(habit) :
          LET h == habit[n]["_id"]
              k == Cardinality(ItemsOf(h))
          IN  /\ k <= 5
              /\ OrdersOf(h) = 0..(k - 1)
              /\ (\E r \in 1..Len(resource) : resource[r].habit_id = h) => k = 5
    /\ (last.op = "create_habit" /\ last.result.status = "ok")
          => /\ \E n \in 1..Len(habit) : habit[n]["_id"] = last.result.body.habit_id
             /\ Cardinality(ItemsOf(last.result.body.habit_id)) = 5
             /\ OrdersOf(last.result.body.habit_id) = 0..4

C5_Witness ==
    /\ Len(habit) = 2
    /\ OrdersOf(habit[1]["_id"]) = 0..2
    /\ OrdersOf(habit[2]["_id"]) = 0..4
    /\ last.op = "create_habit"
    /\ last.result.status = "ok"

\* what the successful calls of a request wrote is at the end of its collection
Coll(name) ==
    CASE name = "habit" -> habit
      [] name = "roadmapitem" -> roadmapitem
      [] name = "resource" -> resource
      [] name = "progress" -> progress
      [] name = "message" -> message

CollNames == {"habit", "roadmapitem", "resource", "progress", "message"}

RECURSIVE Written(_, _)
\* the data of the successful calls of a trace to one collection, in order
Written(name, tr) ==
    IF Len(tr) = 0 THEN <<>>
    ELSE (IF Head(tr).coll = name /\ Head(tr).ok THEN <<Head(tr).doc>> ELSE <<>>)
         \o Written(name, Tail(tr))

Kept(name, tr) ==
    LET w == Written(name, tr) IN
    /\ Len(Coll(name)) >= Len(w)
    /\ \A i \in 1..Len(w) : Strip(LastN(Coll(name), Len(w))[i]) = w[i]

\* C9: when a store create call fails during create_habit or ask_ai, the request
\* ends with an error, the failed call is the last store call of the request (no
\* retry, no later call), no store call is made twice, and the documents of the
\* earlier calls are in the store.
C9_FailStop ==
    last.op \in {"create_habit", "ask_ai"}
        => LET tr == last.trace IN
           /\ \A k \in 1..Len(tr) : ~tr[k].ok => k = Len(tr)
           /\ (\E k \in 1..Len(tr) : ~tr[k].ok) => last.result = Raised("PersistenceError")
           /\ last.result.status = "ok" => \A k \in 1..Len(tr) : tr[k].ok
           /\ \A i, j \in 1..Len(tr) :
                 i < j => <<tr[i].coll, tr[i].doc>> # <<tr[j].coll, tr[j].doc>>
           /\ \A name \in CollNames : Kept(name, tr)

C9_Witness ==
    /\ Len(habit) = 1
    /\ Len(roadmapitem) = 2
    /\ Len(resource) = 0
    /\ Len(message) = 1
    /\ message[1].role = "user"
    /\ last.op = "ask_ai"
    /\ last.result = Raised("PersistenceError")

\* a collection is extended at its end only
IsPrefix(s, u) == Len(s) <= Len(u) /\ SubSeq(u, 1, Len(s)) = s

Reads == {"list_habits", "get_habit_roadmap", "get_habit_resources", "list_progress"}

Grows ==
    /\ IsPrefix(habit, habit')
    /\ IsPrefix(roadmapitem, roadmapitem')
    /\ IsPrefix(resource, resource')
    /\ IsPrefix(progress, progress')
    /\ IsPrefix(message, message')

\* C10 (as claimed): the store only grows; the read requests leave all five
\* collections unchanged; add_progress adds exactly one progress document and
\* changes nothing else; ask_ai changes only the message collection.
C10_ExactlyOne ==
    [][ /\ Grows
        /\ last'.op \in Reads => store' = store
        /\ last'.op = "add_progress"
             => /\ Len(progress') = Len(progress) + 1
                /\ UNCHANGED <<habit, roadmapitem, resource, message>>
        /\ last'.op = "ask_ai" => UNCHANGED <<habit, roadmapitem, resource, progress>>
      ]_vars

\* C10 (amended): the store only grows; the read requests leave all five
\* collections unchanged; add_progress adds exactly one progress document when
\* its store call succeeds and none when it fails, and changes nothing else;
\* ask_ai changes only the message collection.
C10_Frame ==
    [][ /\ Grows
        /\ last'.op \in Reads => store' = store
        /\ last'.op = "add_progress"
             => /\ last'.result.status = "ok"
                     => /\ Len(progress') = Len(progress) + 1
                        /\ Strip(progress'[Len(progress')]) = last'.trace[1].doc
                /\ last'.result.status # "ok" => progress' = progress
                /\ UNCHANGED <<habit, roadmapitem, resource, message>>
        /\ last'.op = "ask_ai" => UNCHANGED <<habit, roadmapitem, resource, progress>>
      ]_vars

C10_Witness ==
    /\ last.op = "list_progress"
    /\ last.result.status = "ok"
    /\ Len(progress) = 1
    /\ Len(last.result.body.items) = 1
    /\ last.result.body.streak = 1

====
